---- MODULE Spec2Model ----
(***************************************************************************)
(* Model of the marvenixx inventory / point-of-sale API.                   *)
(*                                                                         *)
(* The program keeps no state in memory: its state is the relational       *)
(* store (tables product, location, lot, stock_move, sale, sale_line,      *)
(* company_settings).  last is the latest request with its outcome; proc   *)
(* holds the requests in progress where requests overlap.                  *)
(* Every table is a sequence of rows; the primary key of a row is its      *)
(* position in the sequence (autoincrement ids 1, 2, ...).                 *)
(*                                                                         *)
(* Every request handler runs on a SQLAlchemy session created by           *)
(* SessionLocal (autoflush = False, autocommit = False) and closed by      *)
(* get_db.  A session is modelled by what it does: objects passed to       *)
(* add() are pending until a flush, queries read the transaction's view    *)
(* (committed rows plus flushed rows, never pending ones), commit()        *)
(* flushes and makes the view durable, close() without commit discards     *)
(* everything since the last commit.                                       *)
(*                                                                         *)
(* Quantities and prices are integers (whole units); strings that the      *)
(* code inspects character by character (SKU, product name) are sequences  *)
(* of one-character strings.  0 stands for None in id and date columns.    *)
(***************************************************************************)
EXTENDS Integers, Sequences, FiniteSets, TLC

VARIABLES product, location, lot, stock_move, sale, sale_line, company_settings,
          last, proc

vars == <<product, location, lot, stock_move, sale, sale_line, company_settings,
          last, proc>>

\* ---------------------------------------------------------------- bounds
\* most lines in one request payload
MaxLines == 2
\* requests that write to the ledger are issued while it has fewer rows
MaxMoves == 4
\* requests that create products are issued while there are fewer products
MaxProducts == 3
MaxLocations == 3
MaxSales == 2
MaxProcs == 2

\* ------------------------------------------------------ program constants
ALERT_THRESHOLD == 5

\* ---------------------------------------------------------------- helpers
\* all sequences over S of length lo..hi
SeqsOf(S, lo, hi) == UNION {[1..n -> S] : n \in lo..hi}

\* ------------------------------------------------------------ the session
Tables == [product |-> product, location |-> location, lot |-> lot,
           stock_move |-> stock_move, sale |-> sale, sale_line |-> sale_line,
           company_settings |-> company_settings]

\* sessionmaker(bind=engine, autoflush=False, autocommit=False)
SessionLocal(T) == [committed |-> T, tx |-> T, pending |-> <<>>, autoflush |-> FALSE]

\* Session.add: the object is pending, not yet visible to queries
add(s, tbl, row) ==
    [s EXCEPT !.pending = Append(@, [kind |-> "insert", tbl |-> tbl, id |-> 0, row |-> row])]

\* attribute assignment on a persistent object: written at the next flush
setattr(s, tbl, id, row) ==
    [s EXCEPT !.pending = Append(@, [kind |-> "update", tbl |-> tbl, id |-> id, row |-> row])]

ApplyOne(T, p) ==
    IF p.kind = "insert"
    THEN [T EXCEPT ![p.tbl] = Append(@, p.row)]
    ELSE [T EXCEPT ![p.tbl] = [@ EXCEPT ![p.id] = p.row]]

RECURSIVE ApplyPending(_, _)
ApplyPending(T, pend) ==
    IF pend = <<>> THEN T ELSE ApplyPending(ApplyOne(T, Head(pend)), Tail(pend))

\* Session.flush: pending objects become rows of the open transaction
flush(s) == [s EXCEPT !.tx = ApplyPending(s.tx, s.pending), !.pending = <<>>]

\* Session.commit: flush, then make the transaction durable
commit(s) == LET f == flush(s) IN [f EXCEPT !.committed = f.tx]

\* Session.close without commit: the open transaction is rolled back
close(s) == [s EXCEPT !.tx = s.committed, !.pending = <<>>]

\* what a query sees: with autoflush the pending objects are flushed first
view(s) == IF s.autoflush THEN flush(s).tx ELSE s.tx

\* a get_db that commits when the handler is left
get_db_committing(s) == commit(s).committed

\* get_db: hand the session to the handler, close it afterwards
get_db(s) == close(s).committed

\* ------------------------------------------------------------ stock query
\* SELECT SUM(qty) ... WHERE product_id = p AND location_id = l;
\* NULL when no row matches
RECURSIVE SumQtyFrom(_, _, _, _)
SumQtyFrom(moves, product_id, location_id, i) ==
    IF i > Len(moves) THEN [null |-> TRUE, v |-> 0]
    ELSE LET rest == SumQtyFrom(moves, product_id, location_id, i + 1)
             m == moves[i]
         IN IF m.product_id = product_id /\ m.location_id = location_id
            THEN [null |-> FALSE, v |-> m.qty + rest.v]
            ELSE rest

\* func.coalesce(x, 0)
coalesce(x, dflt) == IF x.null THEN dflt ELSE x.v

\* the stock query without the location filter (the query of products.py)
get_available_qty_all_locations(s, product_id, location_id) ==
    LET total(l) == coalesce(SumQtyFrom(view(s).stock_move, product_id, l, 1), 0)
    IN total(1) + total(2)

get_available_qty(s, product_id, location_id) ==
    coalesce(SumQtyFrom(view(s).stock_move, product_id, location_id, 1), 0)

get_available_stock(s, product_id, location_id) ==
    coalesce(SumQtyFrom(view(s).stock_move, product_id, location_id, 1), 0)

\* ------------------------------------------------------------- responses
\* the handler's outcome: HTTP status, detail, body, and the session as the
\* handler leaves it (get_db closes it)
Outcome(status, detail, resp, s) ==
    [status |-> status, detail |-> detail, resp |-> resp, s |-> s]

\* raise HTTPException(status_code, detail)
HTTPException(status, detail, s) == Outcome(status, detail, <<>>, s)

\* an exception that is no HTTPException: the server answers 500
Unhandled(exc, s) == Outcome(500, exc, <<>>, s)

\* db.query(Product).filter(Product.sku == sku).first(): the id of the
\* first product with that SKU, 0 (None) when there is none
RECURSIVE ProductBySkuFrom(_, _, _)
ProductBySkuFrom(rows, sku, i) ==
    IF i > Len(rows) THEN 0
    ELSE IF rows[i].sku = sku THEN i
    ELSE ProductBySkuFrom(rows, sku, i + 1)

ProductBySku(s, sku) == ProductBySkuFrom(view(s).product, sku, 1)

\* ---------------------------------------------------------------- receipts
\* db.query(Lot).filter_by(product_id=..., lot_code=...).first()
RECURSIVE LotByCodeFrom(_, _, _, _)
LotByCodeFrom(rows, product_id, lot_code, i) ==
    IF i > Len(rows) THEN 0
    ELSE IF rows[i].product_id = product_id /\ rows[i].lot_code = lot_code THEN i
    ELSE LotByCodeFrom(rows, product_id, lot_code, i + 1)

LotByCode(s, product_id, lot_code) == LotByCodeFrom(view(s).lot, product_id, lot_code, 1)

\* a lot creation that does not look for an existing lot first
find_or_create_lot_always_new(s, product_id, line) ==
    commit(add(s, "lot", [product_id |-> product_id, lot_code |-> line.lot_code,
                          expiry_date |-> line.expiry_date]))

\* the find-or-create of a lot: a new lot is committed at once, which also
\* commits whatever the session holds from the earlier lines
find_or_create_lot(s, product_id, line) ==
    IF LotByCode(s, product_id, line.lot_code) # 0 THEN s
    ELSE commit(add(s, "lot", [product_id |-> product_id, lot_code |-> line.lot_code,
                                expiry_date |-> line.expiry_date]))

RECURSIVE post_receipt_loop(_, _, _, _)
post_receipt_loop(s, lines, i, created) ==
    IF i > Len(lines)
    THEN Outcome(200, "ok", [lines |-> created], commit(s))
    ELSE LET line == lines[i]
             pid == ProductBySku(s, line.product_sku)
         IN IF pid = 0
            THEN HTTPException(400, "Unknown product SKU", s)
            ELSE LET s1 == IF line.lot_code # "" THEN find_or_create_lot(s, pid, line) ELSE s
                     lot_id == IF line.lot_code # "" THEN LotByCode(s1, pid, line.lot_code) ELSE 0
                     move == [product_id |-> pid, lot_id |-> lot_id,
                              location_id |-> line.to_location_id, qty |-> line.qty,
                              move_type |-> "RECEIPT", ref |-> <<"GRN", 0, 0>>]
                 IN post_receipt_loop(add(s1, "stock_move", move), lines, i + 1, created + 1)

post_receipt(s, payload) == post_receipt_loop(s, payload.lines, 1, 0)

\* ---------------------------------------------------------------- transfers
\* db.query(Location).filter(Location.id == id).first()
LocationById(s, id) == IF id \in 1..Len(view(s).location) THEN id ELSE 0

\* a validation that looks at the first line only
transfer_validate_first_line(s, payload, i) ==
    LET line == payload.lines[1]
        pid == ProductBySku(s, line.product_sku)
    IN IF line.qty <= 0
       THEN HTTPException(400, "All quantities must be > 0.", s)
       ELSE IF pid = 0
       THEN HTTPException(400, "Unknown SKU", s)
       ELSE IF line.qty > get_available_stock(s, pid, payload.from_location_id)
       THEN HTTPException(400, "Not enough stock", s)
       ELSE Outcome(200, "valid", <<>>, s)

\* a validation that refuses negative quantities only (< for <=)
RECURSIVE transfer_validate_negative_only(_, _, _)
transfer_validate_negative_only(s, payload, i) ==
    IF i > Len(payload.lines) THEN Outcome(200, "valid", <<>>, s)
    ELSE LET line == payload.lines[i]
             pid == ProductBySku(s, line.product_sku)
         IN IF line.qty < 0
            THEN HTTPException(400, "All quantities must be > 0.", s)
            ELSE IF pid = 0
            THEN HTTPException(400, "Unknown SKU", s)
            ELSE IF line.qty > get_available_stock(s, pid, payload.from_location_id)
            THEN HTTPException(400, "Not enough stock", s)
            ELSE transfer_validate_negative_only(s, payload, i + 1)

\* quantity the lines before line i ask of the SKU
RECURSIVE EarlierQty(_, _, _)
EarlierQty(payload, sku, i) ==
    IF i <= 1 THEN 0
    ELSE (IF payload.lines[i - 1].product_sku = sku THEN payload.lines[i - 1].qty ELSE 0)
         + EarlierQty(payload, sku, i - 1)

\* a validation that takes off what the earlier lines of the transfer ask
RECURSIVE transfer_validate_running(_, _, _)
transfer_validate_running(s, payload, i) ==
    IF i > Len(payload.lines) THEN Outcome(200, "valid", <<>>, s)
    ELSE LET line == payload.lines[i]
             pid == ProductBySku(s, line.product_sku)
         IN IF line.qty <= 0
            THEN HTTPException(400, "All quantities must be > 0.", s)
            ELSE IF pid = 0
            THEN HTTPException(400, "Unknown SKU", s)
            ELSE IF line.qty > get_available_stock(s, pid, payload.from_location_id)
                                 - EarlierQty(payload, line.product_sku, i)
            THEN HTTPException(400, "Not enough stock", s)
            ELSE transfer_validate_running(s, payload, i + 1)

\* step 2 of create_stock_transfer: validate every line; nothing is added
RECURSIVE transfer_validate(_, _, _)
transfer_validate(s, payload, i) ==
    IF i > Len(payload.lines) THEN Outcome(200, "valid", <<>>, s)
    ELSE LET line == payload.lines[i]
             pid == ProductBySku(s, line.product_sku)
         IN IF line.qty <= 0
            THEN HTTPException(400, "All quantities must be > 0.", s)
            ELSE IF pid = 0
            THEN HTTPException(400, "Unknown SKU", s)
            ELSE IF line.qty > get_available_stock(s, pid, payload.from_location_id)
            THEN HTTPException(400, "Not enough stock", s)
            ELSE transfer_validate(s, payload, i + 1)

\* a step 3 that books the TRANSFER_IN row at the source location
RECURSIVE transfer_write_in_at_source(_, _, _)
transfer_write_in_at_source(s, payload, i) ==
    IF i > Len(payload.lines) THEN s
    ELSE LET line == payload.lines[i]
             pid == ProductBySku(s, line.product_sku)
             ref == <<"TRANSFER", payload.from_location_id, payload.to_location_id>>
             move_out == [product_id |-> pid, lot_id |-> 0,
                          location_id |-> payload.from_location_id, qty |-> 0 - line.qty,
                          move_type |-> "TRANSFER_OUT", ref |-> ref]
             move_in == [product_id |-> pid, lot_id |-> 0,
                         location_id |-> payload.from_location_id, qty |-> line.qty,
                         move_type |-> "TRANSFER_IN", ref |-> ref]
         IN transfer_write_in_at_source(
                add(add(s, "stock_move", move_out), "stock_move", move_in), payload, i + 1)

\* step 3: one TRANSFER_OUT and one TRANSFER_IN row per line
RECURSIVE transfer_write(_, _, _)
transfer_write(s, payload, i) ==
    IF i > Len(payload.lines) THEN s
    ELSE LET line == payload.lines[i]
             pid == ProductBySku(s, line.product_sku)
             ref == <<"TRANSFER", payload.from_location_id, payload.to_location_id>>
             move_out == [product_id |-> pid, lot_id |-> 0,
                          location_id |-> payload.from_location_id, qty |-> 0 - line.qty,
                          move_type |-> "TRANSFER_OUT", ref |-> ref]
             move_in == [product_id |-> pid, lot_id |-> 0,
                         location_id |-> payload.to_location_id, qty |-> line.qty,
                         move_type |-> "TRANSFER_IN", ref |-> ref]
         IN transfer_write(add(add(s, "stock_move", move_out), "stock_move", move_in),
                           payload, i + 1)

\* step 4: remaining stock at the source, read after the commit
transfer_response(s, payload) ==
    [i \in 1..Len(payload.lines) |->
        [sku |-> payload.lines[i].product_sku,
         qty_transferred |-> payload.lines[i].qty,
         remaining_at_from_location |->
            get_available_stock(s, ProductBySku(s, payload.lines[i].product_sku),
                                payload.from_location_id)]]

create_stock_transfer(s, payload) ==
    IF payload.from_location_id = payload.to_location_id
    THEN HTTPException(400, "From and To locations must be different.", s)
    ELSE IF payload.lines = <<>>
    THEN HTTPException(400, "No lines in transfer.", s)
    ELSE IF LocationById(s, payload.from_location_id) = 0
            \/ LocationById(s, payload.to_location_id) = 0
    THEN HTTPException(400, "Invalid location ID(s).", s)
    ELSE LET v == transfer_validate(s, payload, 1)
         IN IF v.status # 200 THEN v
            ELSE LET s1 == commit(transfer_write(s, payload, 1))
                 IN Outcome(200, "ok", transfer_response(s1, payload), s1)

\* -------------------------------------------------------------------- sales
\* a datetime is <<year, month, day, hour>>; Now is what the database clock
\* shows when it fills created_at (server_default=func.now())
Now == <<2025, 3, 12, 9>>

\* reading obj.name gives the value, or AttributeError when the object has
\* no such field; a SaleLineIn has the fields sku, qty and unit_price
hasattr(obj, name) == name \in DOMAIN obj

\* a local variable of the handler: unbound until its first assignment
Unbound == [bound |-> FALSE, v |-> 0]
Bound(v) == [bound |-> TRUE, v |-> v]

\* the body of create_sale's loop over payload.lines, statement by statement
RECURSIVE create_sale_loop(_, _, _, _, _, _)
create_sale_loop(s, payload, sale_id, i, total, low_stock) ==
    IF i > Len(payload.lines)
    THEN \* sale.total_amount = total; db.commit()
         IF ~total.bound THEN Unhandled("UnboundLocalError", s)
         ELSE LET row == [view(s).sale[sale_id] EXCEPT !.total_amount = total.v]
                  s1 == commit(setattr(s, "sale", sale_id, row))
              IN Outcome(200, "ok",
                         [sale_id |-> sale_id, total |-> total.v, low_stock |-> low_stock], s1)
    ELSE LET line == payload.lines[i]
             pid == ProductBySku(s, line.sku)
         IN IF pid = 0
            THEN HTTPException(404, "Product not found", s)
            ELSE IF line.qty <= 0
            THEN HTTPException(400, "qty must be > 0", s)
            ELSE IF ~hasattr(line, "location_id")
            THEN Unhandled("AttributeError", s)      \* int(line.location_id)
            ELSE LET available == get_available_qty(s, pid, line.location_id)
                     line_total == line.qty * line.unit_price
                     remaining == available - line.qty
                     sl == [sale_id |-> sale_id, product_id |-> pid, qty |-> line.qty,
                            unit_price |-> line.unit_price, line_total |-> line_total]
                     sm == [product_id |-> pid, lot_id |-> 0,
                            location_id |-> payload.location_id, qty |-> 0 - line.qty,
                            move_type |-> "SALE", ref |-> <<"SALE", sale_id, 0>>]
                     warn == [sku |-> view(s).product[pid].sku,
                              name |-> view(s).product[pid].name,
                              remaining |-> remaining]
                 IN IF line.qty > available
                    THEN HTTPException(400, "Not enough stock", s)
                    ELSE IF ~total.bound
                    THEN Unhandled("UnboundLocalError", s)   \* total += line_total
                    ELSE create_sale_loop(
                            add(add(s, "sale_line", sl), "stock_move", sm),
                            payload, sale_id, i + 1, Bound(total.v + line_total),
                            IF remaining <= ALERT_THRESHOLD
                            THEN Append(low_stock, warn) ELSE low_stock)

create_sale(s, payload) ==
    IF payload.location_id = 0
    THEN HTTPException(400, "location_id is required", s)
    ELSE IF payload.lines = <<>>
    THEN HTTPException(400, "No lines provided", s)
    ELSE LET header == [location_id |-> payload.location_id, total_amount |-> 0,
                        created_at |-> Now]
             s1 == flush(add(s, "sale", header))
         IN \* no statement binds total before the loop
            create_sale_loop(s1, payload, Len(s1.tx.sale), 1, Unbound, <<>>)

\* SELECT SUM(line_total) FROM sale_line WHERE sale_id = id
RECURSIVE SumLineTotalFrom(_, _, _)
SumLineTotalFrom(lines, sale_id, i) ==
    IF i > Len(lines) THEN [null |-> TRUE, v |-> 0]
    ELSE LET rest == SumLineTotalFrom(lines, sale_id, i + 1)
         IN IF lines[i].sale_id = sale_id
            THEN [null |-> FALSE, v |-> lines[i].line_total + rest.v]
            ELSE rest

\* db.query(Sale).filter(Sale.id == sale_id).first()
SaleById(s, sale_id) == IF sale_id \in 1..Len(view(s).sale) THEN sale_id ELSE 0

\* a pass of the loop that commits the rows of its line at once
add_lines_line_committing(s, ln, sale_id, location_id) ==
    LET pid == ProductBySku(s, ln.sku)
        line_total == ln.qty * ln.unit_price
        sl == [sale_id |-> sale_id, product_id |-> pid, qty |-> ln.qty,
               unit_price |-> ln.unit_price, line_total |-> line_total]
        sm == [product_id |-> pid, lot_id |-> 0,
               location_id |-> location_id, qty |-> 0 - ln.qty,
               move_type |-> "SALE_ADJUST", ref |-> <<"SALE", sale_id, 0>>]
    IN IF pid = 0
       THEN HTTPException(404, "Product SKU not found", s)
       ELSE IF ln.qty <= 0
       THEN HTTPException(400, "qty must be > 0", s)
       ELSE IF ln.qty > get_available_qty(s, pid, location_id)
       THEN HTTPException(400, "Not enough stock", s)
       ELSE Outcome(200, "line", <<>>,
                    commit(add(add(s, "sale_line", sl), "stock_move", sm)))

\* one pass of the loop over payload.lines: the checks of the line, then its
\* SaleLine and its SALE_ADJUST StockMove are added to the session
add_lines_line(s, ln, sale_id, location_id) ==
    LET pid == ProductBySku(s, ln.sku)
        line_total == ln.qty * ln.unit_price
        sl == [sale_id |-> sale_id, product_id |-> pid, qty |-> ln.qty,
               unit_price |-> ln.unit_price, line_total |-> line_total]
        sm == [product_id |-> pid, lot_id |-> 0,
               location_id |-> location_id, qty |-> 0 - ln.qty,
               move_type |-> "SALE_ADJUST", ref |-> <<"SALE", sale_id, 0>>]
    IN IF pid = 0
       THEN HTTPException(404, "Product SKU not found", s)
       ELSE IF ln.qty <= 0
       THEN HTTPException(400, "qty must be > 0", s)
       ELSE IF ln.qty > get_available_qty(s, pid, location_id)
       THEN HTTPException(400, "Not enough stock", s)
       ELSE Outcome(200, "line", <<>>, add(add(s, "sale_line", sl), "stock_move", sm))

\* recompute total: the query reads what the session has flushed
add_lines_total(s, sale_id) == coalesce(SumLineTotalFrom(view(s).sale_line, sale_id, 1), 0)

\* a commit that looks at the stock again and refuses what no longer fits
add_lines_commit_rechecking(s, sale_id, total_now) ==
    LET f == flush(s)
    IN IF \E i \in 1..Len(f.tx.stock_move) :
            coalesce(SumQtyFrom(f.tx.stock_move, f.tx.stock_move[i].product_id,
                                f.tx.stock_move[i].location_id, 1), 0) < 0
       THEN HTTPException(400, "Not enough stock", s)
       ELSE LET row == [view(s).sale[sale_id] EXCEPT !.total_amount = total_now]
                s1 == commit(setattr(s, "sale", sale_id, row))
            IN Outcome(200, "ok", [sale_id |-> sale_id, new_total |-> total_now], s1)

\* sale.total_amount = total_now; db.commit()
add_lines_commit(s, sale_id, total_now) ==
    LET row == [view(s).sale[sale_id] EXCEPT !.total_amount = total_now]
        s1 == commit(setattr(s, "sale", sale_id, row))
    IN Outcome(200, "ok", [sale_id |-> sale_id, new_total |-> total_now], s1)

RECURSIVE add_lines_loop(_, _, _, _, _)
add_lines_loop(s, payload, sale_id, location_id, i) ==
    IF i > Len(payload.lines)
    THEN add_lines_commit(s, sale_id, add_lines_total(s, sale_id))
    ELSE LET r == add_lines_line(s, payload.lines[i], sale_id, location_id)
         IN IF r.status # 200 THEN r
            ELSE add_lines_loop(r.s, payload, sale_id, location_id, i + 1)

\* the checks before the loop; the answer of a request that passes them
\* is the location the lines are sold at
add_lines_begin(s, sale_id, payload) ==
    IF SaleById(s, sale_id) = 0
    THEN HTTPException(404, "Sale not found", s)
    ELSE IF payload.lines = <<>>
    THEN HTTPException(400, "No lines provided", s)
    ELSE LET location_id == IF payload.location_id # 0 THEN payload.location_id
                            ELSE view(s).sale[sale_id].location_id
         IN IF location_id = 0
            THEN HTTPException(400, "location_id is required", s)
            ELSE Outcome(200, "begun", location_id, s)

add_lines_to_sale(s, sale_id, payload) ==
    LET b == add_lines_begin(s, sale_id, payload)
    IN IF b.status # 200 THEN b
       ELSE add_lines_loop(s, payload, sale_id, b.resp, 1)

\* ----------------------------------------------------------------- products
\* str.upper on one character
UpperChar(c) == CASE c = "a" -> "A" [] c = "b" -> "B" [] OTHER -> c

\* str.upper
upper(str) == [i \in 1..Len(str) |-> UpperChar(str[i])]

\* str.isalnum on one character
isalnum(c) == c \in {"a", "b", "A", "B", "P", "R", "D",
                     "0", "1", "2", "3", "4", "5", "6", "7", "8", "9"}

isspace(c) == c = " "

RECURSIVE lstrip(_)
lstrip(str) ==
    IF str # <<>> /\ isspace(Head(str)) THEN lstrip(Tail(str)) ELSE str

RECURSIVE rstrip(_)
rstrip(str) ==
    IF str # <<>> /\ isspace(str[Len(str)]) THEN rstrip(SubSeq(str, 1, Len(str) - 1)) ELSE str

\* str.strip
strip(str) == rstrip(lstrip(str))

\* "".join(ch for ch in str if ch.isalnum())
JoinAlnum(str) == SelectSeq(str, isalnum)

\* str[:n]
Prefix(str, n) == SubSeq(str, 1, IF Len(str) < n THEN Len(str) ELSE n)

DigitChar(d) == <<"0", "1", "2", "3", "4", "5", "6", "7", "8", "9">>[d + 1]

RECURSIVE Decimal(_)
Decimal(n) == IF n < 10 THEN <<DigitChar(n)>> ELSE Append(Decimal(n \div 10), DigitChar(n % 10))

RECURSIVE ZeroPad(_, _)
ZeroPad(str, width) == IF Len(str) >= width THEN str ELSE ZeroPad(<<"0">> \o str, width)

\* f"{counter:04d}"
Format04d(n) == ZeroPad(Decimal(n), 4)

\* the while loop of generate_sku: count up until the SKU is free
RECURSIVE generate_sku_loop(_, _, _)
generate_sku_loop(s, prefix, counter) ==
    LET sku == prefix \o Format04d(counter)
    IN IF ProductBySku(s, sku) # 0 THEN generate_sku_loop(s, prefix, counter + 1) ELSE sku

generate_sku(s, name) ==
    LET alnum == Prefix(JoinAlnum(upper(name)), 4)
        prefix == IF alnum = <<>> THEN <<"P", "R", "D">> ELSE alnum
        \* max(Product.id), 0 for an empty table; rows are never deleted
        max_id == Len(view(s).product)
    IN generate_sku_loop(s, prefix, max_id + 1)

\* the SKU create_product goes on with: the stripped, upper-cased payload
\* SKU, or a generated one when that is empty (<<>> also stands for None)
incoming_sku(s, payload, name) ==
    LET given == IF payload.sku # <<>> THEN upper(strip(payload.sku)) ELSE <<>>
    IN IF given = <<>> THEN generate_sku(s, name) ELSE given

\* a create_product without the "SKU already exists" check
create_product_unchecked(s, payload) ==
    LET name == strip(payload.name)
    IN IF name = <<>>
       THEN HTTPException(400, "Name cannot be empty.", s)
       ELSE LET sku == incoming_sku(s, payload, name)
                p == [sku |-> sku, name |-> name, is_active |-> TRUE]
                s1 == commit(add(s, "product", p))
            IN Outcome(200, "ok", [id |-> Len(s1.tx.product), sku |-> sku], s1)

create_product(s, payload) ==
    LET name == strip(payload.name)
    IN IF name = <<>>
       THEN HTTPException(400, "Name cannot be empty.", s)
       ELSE LET sku == incoming_sku(s, payload, name)
            IN IF ProductBySku(s, sku) # 0
               THEN HTTPException(400, "SKU already exists.", s)
               ELSE LET p == [sku |-> sku, name |-> name, is_active |-> TRUE]
                        s1 == commit(add(s, "product", p))
                    IN Outcome(200, "ok", [id |-> Len(s1.tx.product), sku |-> sku], s1)

\* db.query(Product).filter(Product.id == product_id).first()
ProductById(s, product_id) == IF product_id \in 1..Len(view(s).product) THEN product_id ELSE 0

\* data = payload.dict(exclude_unset=True): a record of the fields that were sent
update_product(s, product_id, data) ==
    IF ProductById(s, product_id) = 0
    THEN HTTPException(404, "Product not found.", s)
    ELSE LET p == view(s).product[product_id]
             p1 == IF hasattr(data, "name") /\ data.name # <<>>
                   THEN [p EXCEPT !.name = strip(data.name)] ELSE p
             p2 == IF hasattr(data, "is_active")
                   THEN [p1 EXCEPT !.is_active = data.is_active] ELSE p1
             s1 == commit(setattr(s, "product", product_id, p2))
         IN Outcome(200, "ok", [id |-> product_id, sku |-> p2.sku], s1)

\* a deactivation that also deletes the product's rows from the ledger
deactivate_product_purging(s, product_id) ==
    IF ProductById(s, product_id) = 0
    THEN HTTPException(404, "Product not found.", s)
    ELSE LET p == view(s).product[product_id]
             s1 == commit(setattr(s, "product", product_id, [p EXCEPT !.is_active = FALSE]))
             kept == SelectSeq(s1.tx.stock_move, LAMBDA mv : mv.product_id # product_id)
             s2 == [s1 EXCEPT !.tx.stock_move = kept, !.committed.stock_move = kept]
         IN Outcome(200, "ok", <<>>, s2)

deactivate_product(s, product_id) ==
    IF ProductById(s, product_id) = 0
    THEN HTTPException(404, "Product not found.", s)
    ELSE LET p == [view(s).product[product_id] EXCEPT !.is_active = FALSE]
             s1 == commit(setattr(s, "product", product_id, p))
         IN Outcome(200, "ok", <<>>, s1)

\* ---------------------------------------------------------------- locations
RECURSIVE LocationByNameFrom(_, _, _)
LocationByNameFrom(rows, name, i) ==
    IF i > Len(rows) THEN 0
    ELSE IF rows[i].name = name THEN i
    ELSE LocationByNameFrom(rows, name, i + 1)

\* db.query(Location).filter(Location.name == name).first()
LocationByName(s, name) == LocationByNameFrom(view(s).location, name, 1)

\* POST /locations.  The Location model has no sort_order column, so the
\* hasattr branch is never taken.
create_location(s, payload) ==
    LET name == strip(payload.name)
    IN IF name = <<>>
       THEN HTTPException(400, "Location name cannot be empty", s)
       ELSE IF LocationByName(s, name) # 0
       THEN HTTPException(400, "Location already exists", s)
       ELSE LET s1 == commit(add(s, "location", [name |-> name]))
            IN Outcome(200, "ok", [id |-> Len(s1.tx.location), name |-> name], s1)

\* PATCH /locations/{location_id}.  A payload without the field name is one
\* whose name is None.
update_location(s, location_id, payload) ==
    IF LocationById(s, location_id) = 0
    THEN HTTPException(404, "Location not found", s)
    ELSE LET loc == view(s).location[location_id]
             loc1 == IF hasattr(payload, "name")
                     THEN [loc EXCEPT !.name = strip(payload.name)] ELSE loc
             s1 == commit(setattr(s, "location", location_id, loc1))
         IN Outcome(200, "ok", [id |-> location_id, name |-> loc1.name], s1)

\* ----------------------------------------------------------------- settings
\* CompanySettings(): a row with the column defaults (two of the columns)
CompanySettings == [company_name |-> "Marvenixx", phone |-> ""]

\* db.query(CompanySettings).first(): the id of the first row, 0 for None
SettingsFirst(s) == IF view(s).company_settings = <<>> THEN 0 ELSE 1

\* for k, v in payload.items(): if hasattr(settings, k): setattr(settings, k, v)
SetKnownKeys(settings, payload) ==
    [k \in DOMAIN settings |-> IF hasattr(payload, k) THEN payload[k] ELSE settings[k]]

\* get_company_settings after its query has answered id
get_company_settings_with(s, id) ==
    IF id = 0
    THEN LET s1 == commit(add(s, "company_settings", CompanySettings))
         IN Outcome(200, "ok", CompanySettings, s1)
    ELSE Outcome(200, "ok", view(s).company_settings[id], s)

\* GET /settings/company
get_company_settings(s) == get_company_settings_with(s, SettingsFirst(s))

\* update_company_settings after its query has answered id
update_company_settings_with(s, id, payload) ==
    IF id = 0
    THEN LET row == SetKnownKeys(CompanySettings, payload)
         IN Outcome(200, "ok", row, commit(add(s, "company_settings", row)))
    ELSE LET row == SetKnownKeys(view(s).company_settings[id], payload)
         IN Outcome(200, "ok", row, commit(setattr(s, "company_settings", id, row)))

\* POST /settings/company
update_company_settings(s, payload) ==
    update_company_settings_with(s, SettingsFirst(s), payload)

\* ------------------------------------------------------------ sales reports
\* a date is <<year, month, day>>, None is the empty tuple
None == <<>>

\* func.date(Sale.created_at)
date(created_at) == SubSeq(created_at, 1, 3)

\* a <= b on dates or datetimes of the same shape
RECURSIVE DateLE(_, _)
DateLE(a, b) ==
    IF a = <<>> THEN TRUE
    ELSE IF Head(a) # Head(b) THEN Head(a) < Head(b)
    ELSE DateLE(Tail(a), Tail(b))

IsLeap(y) == (y % 4 = 0 /\ y % 100 # 0) \/ y % 400 = 0

DaysInMonth(y, m) ==
    IF m = 2 THEN (IF IsLeap(y) THEN 29 ELSE 28)
    ELSE IF m \in {4, 6, 9, 11} THEN 30 ELSE 31

PrevDay(d) ==
    IF d[3] > 1 THEN <<d[1], d[2], d[3] - 1>>
    ELSE IF d[2] > 1 THEN <<d[1], d[2] - 1, DaysInMonth(d[1], d[2] - 1)>>
    ELSE <<d[1] - 1, 12, 31>>

\* d - timedelta(days=n)
RECURSIVE MinusDays(_, _)
MinusDays(d, n) == IF n = 0 THEN d ELSE MinusDays(PrevDay(d), n - 1)

\* date.isoformat(): "YYYY-MM-DD"
isoformat(d) ==
    ZeroPad(Decimal(d[1]), 4) \o <<"-">> \o ZeroPad(Decimal(d[2]), 2)
        \o <<"-">> \o ZeroPad(Decimal(d[3]), 2)

IsDigit(c) == \E n \in 0..9 : DigitChar(n) = c

DigitValue(c) == CHOOSE n \in 0..9 : DigitChar(n) = c

RECURSIVE ParseInt(_)
ParseInt(str) ==
    IF str = <<>> THEN 0
    ELSE 10 * ParseInt(SubSeq(str, 1, Len(str) - 1)) + DigitValue(str[Len(str)])

\* date.fromisoformat on "YYYY-MM-DD": the date, or None for ValueError
fromisoformat(str) ==
    IF /\ Len(str) = 10
       /\ str[5] = "-" /\ str[8] = "-"
       /\ \A i \in {1, 2, 3, 4, 6, 7, 9, 10} : IsDigit(str[i])
    THEN LET y == ParseInt(SubSeq(str, 1, 4))
             m == ParseInt(SubSeq(str, 6, 7))
             d == ParseInt(SubSeq(str, 9, 10))
         IN IF y >= 1 /\ m \in 1..12 /\ d >= 1 /\ d <= DaysInMonth(y, m)
            THEN <<y, m, d>> ELSE None
    ELSE None

\* the sales whose day is in start..end
SalesBetween(T, start, end) ==
    {id \in 1..Len(T.sale) : /\ DateLE(start, date(T.sale[id].created_at))
                             /\ DateLE(date(T.sale[id].created_at), end)}

\* SUM(line_total) over the rows of Sale LEFT JOIN SaleLine for the sales in
\* ids: NULL when no row has a line
RECURSIVE SumJoined(_, _)
SumJoined(T, ids) ==
    IF ids = {} THEN [null |-> TRUE, v |-> 0]
    ELSE LET id == CHOOSE x \in ids : TRUE
             one == SumLineTotalFrom(T.sale_line, id, 1)
             rest == SumJoined(T, ids \ {id})
         IN [null |-> one.null /\ rest.null, v |-> one.v + rest.v]

\* GROUP BY day ORDER BY day: one row per day that has a sale among ids
RECURSIVE DailyRows(_, _)
DailyRows(T, ids) ==
    IF ids = {} THEN <<>>
    ELSE LET first == CHOOSE x \in ids :
                        \A z \in ids : DateLE(date(T.sale[x].created_at),
                                              date(T.sale[z].created_at))
             d == date(T.sale[first].created_at)
             same == {x \in ids : date(T.sale[x].created_at) = d}
         IN <<[date |-> isoformat(d), total |-> coalesce(SumJoined(T, same), 0)]>>
                \o DailyRows(T, ids \ same)

\* sum(row["total"] for row in daily if row["date"][:n] == ref_str[:n])
RECURSIVE SumDaily(_, _, _, _)
SumDaily(daily, ref_str, n, i) ==
    IF i > Len(daily) THEN 0
    ELSE (IF SubSeq(daily[i].date, 1, n) = SubSeq(ref_str, 1, n) THEN daily[i].total ELSE 0)
         + SumDaily(daily, ref_str, n, i + 1)

\* GET /reports/sales_summary; today is date.today() at the request
sales_summary(s, start_date, end_date, today) ==
    LET end == IF end_date = None THEN today ELSE end_date
        start == IF start_date = None THEN MinusDays(end, 6) ELSE start_date
        daily == DailyRows(view(s), SalesBetween(view(s), start, end))
        ref_str == isoformat(end)
    IN Outcome(200, "ok",
               [sales_today |-> SumDaily(daily, ref_str, 10, 1),
                sales_this_month |-> SumDaily(daily, ref_str, 7, 1),
                sales_this_year |-> SumDaily(daily, ref_str, 4, 1),
                daily |-> daily], s)

\* ORDER BY created_at DESC LIMIT limit over the sales in ids, one row per
\* sale with COALESCE(SUM(line_total), 0)
RECURSIVE HistoryRows(_, _, _)
HistoryRows(T, ids, limit) ==
    IF ids = {} \/ limit = 0 THEN <<>>
    ELSE LET id == CHOOSE x \in ids :
                     \A z \in ids : DateLE(T.sale[z].created_at, T.sale[x].created_at)
         IN <<[id |-> id, created_at |-> T.sale[id].created_at,
               total |-> coalesce(SumLineTotalFrom(T.sale_line, id, 1), 0)]>>
                \o HistoryRows(T, ids \ {id}, limit - 1)

\* a history that reports the stored total_amount
sales_history_stored_total(s, start_date, end_date, limit) ==
    LET start_p == fromisoformat(start_date)
        end_p == fromisoformat(end_date)
    IN IF start_p = None \/ end_p = None
       THEN Outcome(200, "ok", <<>>, s)
       ELSE LET start_d == IF DateLE(start_p, end_p) THEN start_p ELSE end_p
                end_d == IF DateLE(start_p, end_p) THEN end_p ELSE start_p
                rows == HistoryRows(view(s), SalesBetween(view(s), start_d, end_d), limit)
            IN Outcome(200, "ok",
                       [i \in 1..Len(rows) |->
                           [rows[i] EXCEPT !.total = view(s).sale[rows[i].id].total_amount]],
                       s)

\* GET /sales/history: the dates arrive as strings
sales_history(s, start_date, end_date, limit) ==
    LET start_p == fromisoformat(start_date)
        end_p == fromisoformat(end_date)
    IN IF start_p = None \/ end_p = None
       THEN Outcome(200, "ok", <<>>, s)          \* except ValueError: return []
       ELSE LET start_d == IF DateLE(start_p, end_p) THEN start_p ELSE end_p
                end_d == IF DateLE(start_p, end_p) THEN end_p ELSE start_p
            IN Outcome(200, "ok",
                       HistoryRows(view(s), SalesBetween(view(s), start_d, end_d), limit), s)

\* GET /reports/sales/history: the dates arrive parsed, and are not swapped
reports_sales_history(s, start_date, end_date, limit) ==
    Outcome(200, "ok",
            HistoryRows(view(s), SalesBetween(view(s), start_date, end_date), limit), s)

\* the lines of get_sale: SaleLine JOIN Product, filtered by the sale
RECURSIVE SaleLinesJoined(_, _, _)
SaleLinesJoined(T, sale_id, i) ==
    IF i > Len(T.sale_line) THEN <<>>
    ELSE LET line == T.sale_line[i]
         IN (IF line.sale_id = sale_id /\ line.product_id \in 1..Len(T.product)
             THEN <<[product_id |-> line.product_id,
                     product_name |-> T.product[line.product_id].name,
                     qty |-> line.qty, unit_price |-> line.unit_price,
                     line_total |-> line.line_total]>>
             ELSE <<>>) \o SaleLinesJoined(T, sale_id, i + 1)

\* total += line_total, over line_list
RECURSIVE SumLineList(_, _)
SumLineList(line_list, i) ==
    IF i > Len(line_list) THEN 0
    ELSE line_list[i].line_total + SumLineList(line_list, i + 1)

\* GET /sales/{sale_id}
get_sale(s, sale_id) ==
    IF SaleById(s, sale_id) = 0
    THEN HTTPException(404, "Sale not found", s)
    ELSE LET line_list == SaleLinesJoined(view(s), sale_id, 1)
             sale_dict == [id |-> sale_id, created_at |-> view(s).sale[sale_id].created_at,
                           total |-> SumLineList(line_list, 1)]
         IN Outcome(200, "ok", [sale |-> sale_dict, lines |-> line_list], s)

\* ------------------------------------------------------------ the requests
\* one request, start to finish: the handler runs on a fresh session over
\* the store, get_db closes the session, and what was committed is the store
\* the next request finds.  last records the request and its outcome.
Serve(op, req, r) ==
    LET T == get_db(r.s)
    IN /\ product' = T.product
       /\ location' = T.location
       /\ lot' = T.lot
       /\ stock_move' = T.stock_move
       /\ sale' = T.sale
       /\ sale_line' = T.sale_line
       /\ company_settings' = T.company_settings
       /\ UNCHANGED proc
       /\ last' = [op |-> op, req |-> req, status |-> r.status, detail |-> r.detail,
                   resp |-> r.resp, pre |-> Tables]

\* SKUs of the seeded catalogue, as create_product generates them from the
\* names "a" and "b", and a SKU no product has
SkuA == <<"A", "0", "0", "0", "1">>
SkuB == <<"B", "0", "0", "0", "2">>
SkuZ == <<"Z">>

MainStore == <<"M", "a", "i", "n", " ", "S", "t", "o", "r", "e">>

ReceiptLine(sku, qty, lot_code, expiry_date) ==
    [product_sku |-> sku, qty |-> qty, lot_code |-> lot_code,
     expiry_date |-> expiry_date, to_location_id |-> 1]

\* receipt lines without a lot
PlainReceiptLines == {ReceiptLine(sku, 3, "", 0) : sku \in {SkuA, SkuB, SkuZ}}

\* receipt lines naming a lot: one lot code with two expiry dates for one
\* product, the same code for another product, and an unknown SKU
LotReceiptLines ==
    {ReceiptLine(SkuA, 3, "L1", 1), ReceiptLine(SkuA, 3, "L1", 2),
     ReceiptLine(SkuB, 3, "L1", 1), ReceiptLine(SkuZ, 3, "", 0)}

TransferLines == {[product_sku |-> SkuA, qty |-> 2], [product_sku |-> SkuA, qty |-> 0],
                  [product_sku |-> SkuZ, qty |-> 2]}

SaleLines == {[sku |-> SkuA, qty |-> 2, unit_price |-> 3],
              [sku |-> SkuA, qty |-> 4, unit_price |-> 3],
              [sku |-> SkuA, qty |-> 0, unit_price |-> 3],
              [sku |-> SkuZ, qty |-> 2, unit_price |-> 3]}

Receipt(lines) ==
    /\ Len(stock_move) < MaxMoves
    /\ \E ls \in SeqsOf(lines, 1, MaxLines) :
         LET payload == [lines |-> ls]
         IN Serve("post_receipt", payload, post_receipt(SessionLocal(Tables), payload))

PlainReceipt == Receipt(PlainReceiptLines)

LotReceipt == Receipt(LotReceiptLines)

\* transfers between the two locations with every list of lines, and with
\* equal or unknown locations with the short lists
TransferPayloads ==
    {[from_location_id |-> ft[1], to_location_id |-> ft[2], lines |-> ls] :
        ft \in {<<1, 2>>, <<2, 1>>}, ls \in SeqsOf(TransferLines, 0, MaxLines)}
    \cup
    {[from_location_id |-> ft[1], to_location_id |-> ft[2], lines |-> ls] :
        ft \in {<<1, 1>>, <<1, 3>>}, ls \in SeqsOf(TransferLines, 0, 1)}

TransferOf(payloads) ==
    /\ Len(stock_move) < MaxMoves
    /\ \E payload \in payloads :
         Serve("create_stock_transfer", payload,
               create_stock_transfer(SessionLocal(Tables), payload))

Transfer == TransferOf(TransferPayloads)

\* sales at location 1 with every list of lines; without a location (0) or
\* at location 2 with the short lists
SalePayloads ==
    {[location_id |-> 1, lines |-> ls] : ls \in SeqsOf(SaleLines, 0, MaxLines)}
    \cup
    {[location_id |-> l, lines |-> ls] : l \in {0, 2}, ls \in SeqsOf(SaleLines, 0, 1)}

CreateSaleOf(payloads) ==
    /\ Len(stock_move) < MaxMoves
    /\ \E payload \in payloads :
         Serve("create_sale", payload, create_sale(SessionLocal(Tables), payload))

CreateSale == CreateSaleOf(SalePayloads)

\* lines added to every existing sale at its own location (0: no override)
\* with every list of lines; with the override 2, or for an unknown sale,
\* with the short lists
AddLinesRequests ==
    {[sale_id |-> id, payload |-> [location_id |-> 0, lines |-> ls]] :
        id \in 1..Len(sale), ls \in SeqsOf(SaleLines, 0, MaxLines)}
    \cup
    {[sale_id |-> id, payload |-> [location_id |-> l, lines |-> ls]] :
        id \in 1..(Len(sale) + 1), l \in {0, 2}, ls \in SeqsOf(SaleLines, 0, 1)}

AddLinesOf(reqs) ==
    /\ Len(stock_move) < MaxMoves
    /\ \E req \in reqs :
         Serve("add_lines_to_sale", req,
               add_lines_to_sale(SessionLocal(Tables), req.sale_id, req.payload))

AddLines == AddLinesOf(AddLinesRequests)

ProductNames == {<<"a">>, <<" ", "b", " ">>, <<" ">>}

SkuInputs == {<<>>, <<" ">>, <<"a", "1">>, <<" ", "A", "1", " ">>,
              <<"A", "0", "0", "0", "2">>}

ProductUpdates == {[name |-> <<"b", " ">>], [is_active |-> FALSE],
                   [name |-> <<>>, is_active |-> TRUE]}

CreateProduct ==
    /\ Len(product) < MaxProducts
    /\ \E name \in ProductNames, sku \in SkuInputs :
         LET payload == [name |-> name, sku |-> sku]
         IN Serve("create_product", payload, create_product(SessionLocal(Tables), payload))

UpdateProductOf(ids, datas) ==
    \E product_id \in ids, data \in datas :
        Serve("update_product", [product_id |-> product_id, data |-> data],
              update_product(SessionLocal(Tables), product_id, data))

UpdateProduct == UpdateProductOf(1..(Len(product) + 1), ProductUpdates)

DeactivateProductOf(ids) ==
    \E product_id \in ids :
        Serve("deactivate_product", [product_id |-> product_id],
              deactivate_product(SessionLocal(Tables), product_id))

DeactivateProduct == DeactivateProductOf(1..(Len(product) + 1))

LocationNames == {<<"S">>, <<" ", "T">>, <<" ">>, MainStore}

CreateLocation ==
    /\ Len(location) < MaxLocations
    /\ \E name \in LocationNames :
         LET payload == [name |-> name]
         IN Serve("create_location", payload, create_location(SessionLocal(Tables), payload))

LocationUpdates == {[name |-> n] : n \in LocationNames} \cup {[sort_order |-> 1]}

UpdateLocationOf(ids, payloads) ==
    \E location_id \in ids, payload \in payloads :
        Serve("update_location", [location_id |-> location_id, payload |-> payload],
              update_location(SessionLocal(Tables), location_id, payload))

UpdateLocation == UpdateLocationOf(1..(Len(location) + 1), LocationUpdates)

\* payloads of POST /settings/company: a column, and a column with a key
\* the model does not have
SettingsPayloads == {[company_name |-> "Acme"], [phone |-> "1", nickname |-> "x"]}

GetSettings == Serve("get_company_settings", <<>>, get_company_settings(SessionLocal(Tables)))

UpdateSettingsOf(payloads) ==
    \E payload \in payloads :
        Serve("update_company_settings", payload,
              update_company_settings(SessionLocal(Tables), payload))

UpdateSettings == UpdateSettingsOf(SettingsPayloads)

\* the report requests: days around the sales of the store below
SummaryStarts == {None, <<2025, 3, 1>>, <<2025, 3, 13>>}

SummaryEnds == {None, <<2025, 3, 12>>}

Todays == {<<2025, 3, 12>>, <<2025, 3, 13>>}

SalesSummary ==
    \E start_date \in SummaryStarts, end_date \in SummaryEnds, today \in Todays :
        Serve("sales_summary",
              [start_date |-> start_date, end_date |-> end_date, today |-> today],
              sales_summary(SessionLocal(Tables), start_date, end_date, today))

\* limit: the least the query accepts (ge=1) and its default
Limits == {1, 500}

HistoryStrings ==
    {<<isoformat(<<2025, 3, 1>>), isoformat(<<2025, 3, 12>>)>>,
     <<isoformat(<<2025, 3, 12>>), isoformat(<<2025, 3, 1>>)>>,
     <<isoformat(<<2025, 3, 12>>), isoformat(<<2025, 3, 12>>)>>,
     <<<<"x">>, isoformat(<<2025, 3, 12>>)>>}

SalesHistory ==
    \E se \in HistoryStrings, limit \in Limits :
        Serve("sales_history", [start_date |-> se[1], end_date |-> se[2], limit |-> limit],
              sales_history(SessionLocal(Tables), se[1], se[2], limit))

HistoryDates ==
    {<<<<2025, 3, 1>>, <<2025, 3, 12>>>>, <<<<2025, 3, 12>>, <<2025, 3, 1>>>>,
     <<<<2024, 3, 12>>, <<2025, 3, 12>>>>}

ReportsSalesHistory ==
    \E se \in HistoryDates, limit \in Limits :
        Serve("reports_sales_history",
              [start_date |-> se[1], end_date |-> se[2], limit |-> limit],
              reports_sales_history(SessionLocal(Tables), se[1], se[2], limit))

GetSale ==
    \E sale_id \in 1..(Len(sale) + 1) :
        Serve("get_sale", [sale_id |-> sale_id], get_sale(SessionLocal(Tables), sale_id))

\* ---------------------------------------------------- overlapping requests
\* Requests that overlap run each on a session of its own.  A query of a
\* session reads what is committed when the query runs (the read-committed
\* isolation a database engine gives by default), its pending objects stay
\* its own until its commit, and nothing in the handlers takes a lock.
\* proc[p] is the request worker p is serving: pc is where the handler
\* stands, pending what its session holds, seen what its queries returned.
Procs == 1..MaxProcs

Idle == [pc |-> "idle", req |-> <<>>, location_id |-> 0, i |-> 0, pending |-> <<>>,
         seen |-> <<>>, total |-> 0, status |-> 0, detail |-> ""]

\* the session of worker p at this moment
SessionOf(p) == [SessionLocal(Tables) EXCEPT !.pending = proc[p].pending]

\* the store becomes T
Store(T) ==
    /\ product' = T.product
    /\ location' = T.location
    /\ lot' = T.lot
    /\ stock_move' = T.stock_move
    /\ sale' = T.sale
    /\ sale_line' = T.sale_line
    /\ company_settings' = T.company_settings

\* the handler of worker p is left with the answer r: get_db closes its
\* session
Leave(p, r) ==
    /\ Store(get_db(r.s))
    /\ proc' = [proc EXCEPT ![p] = [@ EXCEPT !.pc = "done", !.pending = <<>>,
                                               !.status = r.status, !.detail = r.detail]]
    /\ UNCHANGED last

\* requests to add lines to sale 1: one or more lines of 2 of product A, or
\* one line of 4; and a request for a sale that does not exist
RaceRequests ==
    {[sale_id |-> 1, payload |-> [location_id |-> 0, lines |-> ls]] :
        ls \in SeqsOf({[sku |-> SkuA, qty |-> 2, unit_price |-> 3]}, 1, MaxLines)
               \cup {<<[sku |-> SkuA, qty |-> 4, unit_price |-> 3]>>}}
    \cup {[sale_id |-> 2, payload |-> [location_id |-> 0, lines |-> <<>>]]}

\* add_lines_to_sale up to the loop
AddLinesBegin(p) ==
    /\ proc[p].pc = "idle"
    /\ \E req \in RaceRequests :
         LET b == add_lines_begin(SessionOf(p), req.sale_id, req.payload)
         IN IF b.status # 200
            THEN Leave(p, b)
            ELSE /\ proc' = [proc EXCEPT ![p] = [Idle EXCEPT !.pc = "lines", !.req = req,
                                                 !.location_id = b.resp, !.i = 1]]
                 /\ UNCHANGED <<product, location, lot, stock_move, sale, sale_line,
                                company_settings, last>>

\* one pass of the loop: the stock guard of the line reads the ledger as
\* it is committed now
AddLinesLine(p) ==
    /\ proc[p].pc = "lines"
    /\ LET me == proc[p]
           ln == me.req.payload.lines[me.i]
           r == add_lines_line(SessionOf(p), ln, me.req.sale_id, me.location_id)
           available == get_available_qty(SessionOf(p), ProductBySku(SessionOf(p), ln.sku),
                                          me.location_id)
       IN IF r.status # 200
          THEN Leave(p, r)
          ELSE /\ proc' = [proc EXCEPT ![p] =
                              [@ EXCEPT !.pending = r.s.pending,
                                        !.seen = Append(@, available),
                                        !.i = me.i + 1,
                                        !.pc = IF me.i = Len(me.req.payload.lines)
                                               THEN "total" ELSE "lines"]]
               /\ UNCHANGED <<product, location, lot, stock_move, sale, sale_line,
                              company_settings, last>>

\* the query that recomputes the total
AddLinesTotal(p) ==
    /\ proc[p].pc = "total"
    /\ proc' = [proc EXCEPT ![p] =
                   [@ EXCEPT !.total = add_lines_total(SessionOf(p), proc[p].req.sale_id),
                             !.pc = "commit"]]
    /\ UNCHANGED <<product, location, lot, stock_move, sale, sale_line,
                   company_settings, last>>

\* sale.total_amount = total_now; db.commit(); return
AddLinesCommit(p) ==
    /\ proc[p].pc = "commit"
    /\ Leave(p, add_lines_commit(SessionOf(p), proc[p].req.sale_id, proc[p].total))

\* requests for the company settings: GET, and POST with a payload
SettingsRequests ==
    {[op |-> "get_company_settings", payload |-> <<>>]}
    \cup {[op |-> "update_company_settings", payload |-> pl] : pl \in SettingsPayloads}

\* the query db.query(CompanySettings).first() of either handler
SettingsQuery(p) ==
    /\ proc[p].pc = "idle"
    /\ \E req \in SettingsRequests :
         proc' = [proc EXCEPT ![p] = [Idle EXCEPT !.pc = "queried", !.req = req,
                                                  !.i = SettingsFirst(SessionOf(p))]]
    /\ UNCHANGED <<product, location, lot, stock_move, sale, sale_line,
                   company_settings, last>>

\* the rest of the handler: if not settings: add; (setattr;) commit
SettingsWrite(p) ==
    /\ proc[p].pc = "queried"
    /\ Leave(p, IF proc[p].req.op = "get_company_settings"
                THEN get_company_settings_with(SessionOf(p), proc[p].i)
                ELSE update_company_settings_with(SessionOf(p), proc[p].i,
                                                  proc[p].req.payload))

\* a worker that has answered takes the next request
NextRequest(p) ==
    /\ proc[p].pc = "done"
    /\ proc' = [proc EXCEPT ![p] = Idle]
    /\ UNCHANGED <<product, location, lot, stock_move, sale, sale_line,
                   company_settings, last>>

\* ------------------------------------------------------------ initial store
NoRequest == [op |-> "none", req |-> <<>>, status |-> 0, detail |-> "", resp |-> <<>>,
              pre |-> <<>>]

\* init_db on an empty database: the tables exist, "Main Store" is seeded
InitEmpty ==
    /\ product = <<>>
    /\ location = <<[name |-> MainStore]>>
    /\ lot = <<>>
    /\ stock_move = <<>>
    /\ sale = <<>>
    /\ sale_line = <<>>
    /\ company_settings = <<>>
    /\ last = NoRequest
    /\ proc = <<>>

\* init_db on a database that is in use: two products (as create_product
\* leaves them), two locations, an empty ledger, and either no sale or one
\* sale header without lines.  The store outlives the process (models.py
\* speaks of the columns the existing database has), so sale rows are found
\* there at start-up.
InitStore ==
    /\ product = <<[sku |-> SkuA, name |-> <<"a">>, is_active |-> TRUE],
                   [sku |-> SkuB, name |-> <<"b">>, is_active |-> TRUE]>>
    /\ location = <<[name |-> MainStore], [name |-> <<"S">>]>>
    /\ lot = <<>>
    /\ stock_move = <<>>
    /\ sale \in {<<>>, <<[location_id |-> 1, total_amount |-> 0, created_at |-> Now]>>}
    /\ sale_line = <<>>
    /\ company_settings = <<>>
    /\ last = NoRequest
    /\ proc = <<>>

\* a store with a sales history: up to MaxSales sales at location 1, created
\* one after the other at some of these times (two of them on the same
\* day), each with a stored total_amount that is or is not the sum of its
\* lines (add_lines_to_sale leaves it stale), and up to MaxLines lines of
\* product 1 at unit price 3 added to them in any order; the ledger holds a
\* receipt and the SALE_ADJUST row of each line.
SaleTimes == <<<<2024, 3, 12, 9>>, <<2025, 2, 28, 9>>, <<2025, 3, 1, 9>>,
               <<2025, 3, 12, 9>>, <<2025, 3, 12, 17>>>>

SaleTables ==
    UNION {{[i \in 1..Len(q) |-> [location_id |-> 1, total_amount |-> a[i],
                                  created_at |-> SaleTimes[q[i]]]] :
               a \in [1..Len(q) -> {0, 3}]} :
           q \in {r \in SeqsOf(1..Len(SaleTimes), 0, MaxSales) :
                     \A i \in 1..(Len(r) - 1) : r[i] < r[i + 1]}}

SaleLineTables(n) ==
    {[i \in 1..Len(q) |-> [sale_id |-> q[i], product_id |-> 1, qty |-> i,
                           unit_price |-> 3, line_total |-> 3 * i]] :
        q \in SeqsOf(1..n, 0, MaxLines)}

LedgerOfLines(lines) ==
    <<[product_id |-> 1, lot_id |-> 0, location_id |-> 1, qty |-> 9,
       move_type |-> "RECEIPT", ref |-> <<"GRN", 0, 0>>]>>
    \o [i \in 1..Len(lines) |->
            [product_id |-> 1, lot_id |-> 0, location_id |-> 1, qty |-> 0 - lines[i].qty,
             move_type |-> "SALE_ADJUST", ref |-> <<"SALE", lines[i].sale_id, 0>>]]

InitSold ==
    /\ product = <<[sku |-> SkuA, name |-> <<"a">>, is_active |-> TRUE],
                   [sku |-> SkuB, name |-> <<"b">>, is_active |-> TRUE]>>
    /\ location = <<[name |-> MainStore], [name |-> <<"S">>]>>
    /\ lot = <<>>
    /\ sale \in SaleTables
    /\ sale_line \in SaleLineTables(Len(sale))
    /\ stock_move = LedgerOfLines(sale_line)
    /\ company_settings = <<>>
    /\ last = NoRequest
    /\ proc = <<>>

\* a store in use with one sale at location 1 and 3 of product A received
\* there, and every worker idle
InitRace ==
    /\ product = <<[sku |-> SkuA, name |-> <<"a">>, is_active |-> TRUE],
                   [sku |-> SkuB, name |-> <<"b">>, is_active |-> TRUE]>>
    /\ location = <<[name |-> MainStore], [name |-> <<"S">>]>>
    /\ lot = <<>>
    /\ stock_move = <<[product_id |-> 1, lot_id |-> 0, location_id |-> 1, qty |-> 3,
                       move_type |-> "RECEIPT", ref |-> <<"GRN", 0, 0>>]>>
    /\ sale = <<[location_id |-> 1, total_amount |-> 0, created_at |-> Now]>>
    /\ sale_line = <<>>
    /\ company_settings = <<>>
    /\ last = NoRequest
    /\ proc = [p \in Procs |-> Idle]

\* init_db on an empty database, every worker idle
InitWorkers ==
    /\ product = <<>>
    /\ location = <<[name |-> MainStore]>>
    /\ lot = <<>>
    /\ stock_move = <<>>
    /\ sale = <<>>
    /\ sale_line = <<>>
    /\ company_settings = <<>>
    /\ last = NoRequest
    /\ proc = [p \in Procs |-> Idle]

\* --------------------------------------------------------- specifications
\* the ledger: receipts, transfers, sales and added sale lines, one request
\* at a time
Init == InitStore

Next == PlainReceipt \/ Transfer \/ CreateSale \/ AddLines

Spec == Init /\ [][Next]_vars

\* receiving with lots
NextLots == LotReceipt

SpecLots == InitStore /\ [][NextLots]_vars

\* the product catalogue, from an empty database
NextCatalog == CreateProduct \/ UpdateProduct \/ DeactivateProduct

SpecCatalog == InitEmpty /\ [][NextCatalog]_vars

\* the locations, from an empty database
NextLocations == CreateLocation \/ UpdateLocation

SpecLocations == InitEmpty /\ [][NextLocations]_vars

\* the sales reports, on a store with a sales history
NextReports == SalesSummary \/ SalesHistory \/ ReportsSalesHistory \/ GetSale

SpecReports == InitSold /\ [][NextReports]_vars

\* add_lines_to_sale requests that overlap
NextRace ==
    \E p \in Procs :
        AddLinesBegin(p) \/ AddLinesLine(p) \/ AddLinesTotal(p) \/ AddLinesCommit(p)

SpecRace == InitRace /\ [][NextRace]_vars

\* settings requests that overlap, from an empty database
NextSettings == \E p \in Procs : SettingsQuery(p) \/ SettingsWrite(p) \/ NextRequest(p)

SpecSettings == InitWorkers /\ [][NextSettings]_vars

\* every operation that writes, on a store in use: the ledger operations
\* with requests of one product, and the updates of products, locations
\* and settings
StoreReceipt == Receipt({ReceiptLine(SkuA, 3, "", 0)})

StoreTransfer ==
    TransferOf({[from_location_id |-> 1, to_location_id |-> 2, lines |-> ls] :
                   ls \in SeqsOf({[product_sku |-> SkuA, qty |-> 2]}, 1, MaxLines)})

StoreSale ==
    CreateSaleOf({[location_id |-> 1, lines |-> ls] :
                     ls \in SeqsOf({[sku |-> SkuA, qty |-> 2, unit_price |-> 3]}, 1, 1)})

StoreAddLines ==
    AddLinesOf({[sale_id |-> id, payload |-> [location_id |-> 0, lines |-> ls]] :
                   id \in 1..Len(sale),
                   ls \in SeqsOf({[sku |-> SkuA, qty |-> 2, unit_price |-> 3]}, 1, MaxLines)})

StoreUpdateProduct == UpdateProductOf({1}, {[name |-> <<"b", " ">>]})

StoreDeactivateProduct == DeactivateProductOf({1})

StoreUpdateLocation == UpdateLocationOf({2}, {[name |-> <<" ", "T">>]})

StoreUpdateSettings == UpdateSettingsOf({[company_name |-> "Acme"]})

NextStore ==
    \/ StoreReceipt \/ StoreTransfer \/ StoreSale \/ StoreAddLines
    \/ StoreUpdateProduct \/ StoreDeactivateProduct
    \/ StoreUpdateLocation \/ StoreUpdateSettings

SpecStore == InitStore /\ [][NextStore]_vars

\* ------------------------------------------------------ what the claims use
\* the ledger rows of T for one product at one location, and the sum of
\* their qty, taken row by row from the table
MovesOf(T, p, l) ==
    {i \in 1..Len(T.stock_move) :
        T.stock_move[i].product_id = p /\ T.stock_move[i].location_id = l}

RECURSIVE QtyOver(_, _)
QtyOver(T, S) ==
    IF S = {} THEN 0
    ELSE LET i == CHOOSE j \in S : TRUE IN T.stock_move[i].qty + QtyOver(T, S \ {i})

LedgerSum(T, p, l) == QtyOver(T, MovesOf(T, p, l))

\* the product row a SKU names in T, 0 when no product has it
IdOfSku(T, sku) ==
    IF \E i \in 1..Len(T.product) : T.product[i].sku = sku
    THEN CHOOSE i \in 1..Len(T.product) : T.product[i].sku = sku
    ELSE 0

ProductIds == 1..Len(product)
LocationIds == 1..Len(location)

\* C1: the stock query of sales.py and of transfers.py answers, for every
\* product and location, the sum of qty over the ledger rows with that
\* product_id and location_id, 0 when there is none; so does the remaining
\* stock a committed transfer reports.
C1_AvailableIsLedgerSum ==
    /\ \A p \in ProductIds, l \in LocationIds :
         /\ get_available_qty(SessionLocal(Tables), p, l) = LedgerSum(Tables, p, l)
         /\ get_available_stock(SessionLocal(Tables), p, l) = LedgerSum(Tables, p, l)
         /\ MovesOf(Tables, p, l) = {}
              => get_available_qty(SessionLocal(Tables), p, l) = 0
    /\ (last.op = "create_stock_transfer" /\ last.status = 200)
         => \A i \in 1..Len(last.req.lines) :
              last.resp[i].remaining_at_from_location =
                 LedgerSum(Tables, IdOfSku(Tables, last.req.lines[i].product_sku),
                           last.req.from_location_id)

\* C1 witness: a ledger holding receipt, added-sale-line and transfer rows
\* for one product, with stock left at both locations
C1_Witness ==
    /\ \E i \in 1..Len(stock_move) : stock_move[i].move_type = "RECEIPT"
    /\ \E i \in 1..Len(stock_move) : stock_move[i].move_type = "SALE_ADJUST"
    /\ \E i \in 1..Len(stock_move) : stock_move[i].move_type = "TRANSFER_IN"
    /\ LedgerSum(Tables, 1, 1) > 0
    /\ LedgerSum(Tables, 1, 2) > 0

\* a create_sale request the specification accepts: a location, lines,
\* every SKU known, every qty positive and within the availability at the
\* header location
SaleAcceptable(T, payload) ==
    /\ payload.location_id # 0
    /\ payload.lines # <<>>
    /\ \A i \in 1..Len(payload.lines) :
         /\ IdOfSku(T, payload.lines[i].sku) # 0
         /\ payload.lines[i].qty > 0
         /\ payload.lines[i].qty
              <= LedgerSum(T, IdOfSku(T, payload.lines[i].sku), payload.location_id)

\* C2: an acceptable create_sale request is committed: one more Sale, one
\* SaleLine and one SALE row of -qty at the header location per line, and
\* the availability of a product sold on one line drops by the sold qty.
C2_AcceptableSaleCommits ==
    (last.op = "create_sale" /\ SaleAcceptable(last.pre, last.req))
      => /\ last.status = 200
         /\ Len(sale) = Len(last.pre.sale) + 1
         /\ Len(sale_line) = Len(last.pre.sale_line) + Len(last.req.lines)
         /\ Len(stock_move) = Len(last.pre.stock_move) + Len(last.req.lines)
         /\ \A i \in 1..Len(last.req.lines) :
              LET m == stock_move[Len(last.pre.stock_move) + i]
              IN /\ m.move_type = "SALE"
                 /\ m.qty = 0 - last.req.lines[i].qty
                 /\ m.location_id = last.req.location_id
         /\ Len(last.req.lines) = 1
              => LedgerSum(Tables, IdOfSku(Tables, last.req.lines[1].sku),
                           last.req.location_id)
                 = LedgerSum(last.pre, IdOfSku(Tables, last.req.lines[1].sku),
                             last.req.location_id) - last.req.lines[1].qty

\* some line of the create_sale request asks for more than its product has
\* at the sale location
SaleOverdraws(T, payload) ==
    \E i \in 1..Len(payload.lines) :
        /\ IdOfSku(T, payload.lines[i].sku) # 0
        /\ payload.lines[i].qty
             > LedgerSum(T, IdOfSku(T, payload.lines[i].sku), payload.location_id)

\* C3: a create_sale request with a line above the availability is not
\* accepted, and the ledger, the Sale and the SaleLine tables are as before.
C3_OverdrawnSaleLeavesNothing ==
    (last.op = "create_sale" /\ SaleOverdraws(last.pre, last.req))
      => /\ last.status # 200
         /\ stock_move = last.pre.stock_move
         /\ sale = last.pre.sale
         /\ sale_line = last.pre.sale_line

\* C3 witness: the header was flushed, the first line is in stock and the
\* second line is above the availability
C3_Witness ==
    /\ last.op = "create_sale"
    /\ last.req.location_id # 0
    /\ Len(last.req.lines) = 2
    /\ SaleAcceptable(last.pre, [last.req EXCEPT !.lines = SubSeq(@, 1, 1)])
    /\ SaleOverdraws(last.pre, [last.req EXCEPT !.lines = SubSeq(@, 2, 2)])
    /\ last.status # 200

\* SaleLine rows of one sale in T, and the sum of their line_total
LinesOf(T, sale_id) == {i \in 1..Len(T.sale_line) : T.sale_line[i].sale_id = sale_id}

RECURSIVE LineTotalOver(_, _)
LineTotalOver(T, S) ==
    IF S = {} THEN 0
    ELSE LET i == CHOOSE j \in S : TRUE
         IN T.sale_line[i].line_total + LineTotalOver(T, S \ {i})

\* C4: in every committed state each Sale's total_amount is the sum of the
\* line_total of its SaleLine rows.
C4_TotalIsSumOfLines ==
    \A id \in 1..Len(sale) :
        sale[id].total_amount = LineTotalOver(Tables, LinesOf(Tables, id))

\* quantity a transfer payload moves of product p
RECURSIVE MovedFrom(_, _, _, _)
MovedFrom(T, payload, p, i) ==
    IF i > Len(payload.lines) THEN 0
    ELSE (IF IdOfSku(T, payload.lines[i].product_sku) = p THEN payload.lines[i].qty ELSE 0)
         + MovedFrom(T, payload, p, i + 1)

\* stock of a product over all locations
RECURSIVE TotalStock(_, _, _)
TotalStock(T, p, l) ==
    IF l > Len(T.location) THEN 0 ELSE LedgerSum(T, p, l) + TotalStock(T, p, l + 1)

\* C5: a successful transfer appends, line by line, one TRANSFER_OUT row of
\* -q at the source and one TRANSFER_IN row of +q at the destination; the
\* source loses what the destination gains and the product's total stays.
C5_TransferMovesStock ==
    (last.op = "create_stock_transfer" /\ last.status = 200)
      => LET n == Len(last.pre.stock_move)
             req == last.req
         IN /\ Len(stock_move) = n + 2 * Len(req.lines)
            /\ SubSeq(stock_move, 1, n) = last.pre.stock_move
            /\ \A i \in 1..Len(req.lines) :
                 LET out == stock_move[n + 2 * i - 1]
                     in == stock_move[n + 2 * i]
                     pid == IdOfSku(Tables, req.lines[i].product_sku)
                 IN /\ out.move_type = "TRANSFER_OUT" /\ in.move_type = "TRANSFER_IN"
                    /\ out.product_id = pid /\ in.product_id = pid
                    /\ out.location_id = req.from_location_id
                    /\ in.location_id = req.to_location_id
                    /\ out.qty = 0 - req.lines[i].qty
                    /\ in.qty = req.lines[i].qty
                    /\ out.qty + in.qty = 0
                    /\ out.ref = in.ref
            /\ \A p \in ProductIds :
                 /\ LedgerSum(Tables, p, req.from_location_id)
                      = LedgerSum(last.pre, p, req.from_location_id)
                        - MovedFrom(Tables, req, p, 1)
                 /\ LedgerSum(Tables, p, req.to_location_id)
                      = LedgerSum(last.pre, p, req.to_location_id)
                        + MovedFrom(Tables, req, p, 1)
                 /\ TotalStock(Tables, p, 1) = TotalStock(last.pre, p, 1)

\* C5 witness: 2 of the 3 units at location 1 were moved to the empty
\* location 2, leaving 1 and 2
C5_Witness ==
    /\ last.op = "create_stock_transfer" /\ last.status = 200
    /\ Len(last.req.lines) = 1
    /\ last.req.from_location_id = 1 /\ last.req.to_location_id = 2
    /\ LedgerSum(last.pre, 1, 1) = 3 /\ LedgerSum(last.pre, 1, 2) = 0
    /\ LedgerSum(Tables, 1, 1) = 1 /\ LedgerSum(Tables, 1, 2) = 2

\* line i of a transfer payload fails validation against the store T
TransferLineInvalid(T, payload, i) ==
    LET line == payload.lines[i]
        pid == IdOfSku(T, line.product_sku)
    IN \/ line.qty <= 0
       \/ pid = 0
       \/ line.qty > LedgerSum(T, pid, payload.from_location_id)

\* C6: a transfer with a line that fails validation is refused and writes
\* no ledger row, whatever position the failing line has.
C6_TransferAllOrNothing ==
    (/\ last.op = "create_stock_transfer"
     /\ \E i \in 1..Len(last.req.lines) : TransferLineInvalid(last.pre, last.req, i))
      => /\ last.status = 400
         /\ stock_move = last.pre.stock_move

\* C6 witness: two lines between known locations, the first one valid and
\* in stock, the second one naming an unknown SKU
C6_Witness ==
    /\ last.op = "create_stock_transfer"
    /\ last.req.from_location_id = 1 /\ last.req.to_location_id = 2
    /\ Len(last.req.lines) = 2
    /\ ~TransferLineInvalid(last.pre, last.req, 1)
    /\ IdOfSku(last.pre, last.req.lines[2].product_sku) = 0
    /\ last.status = 400

\* C7: a transfer whose locations are equal, whose line list is empty or
\* which has a line with qty <= 0 is answered 400 and the store is as before.
C7_TransferInvalidRequest ==
    (/\ last.op = "create_stock_transfer"
     /\ \/ last.req.from_location_id = last.req.to_location_id
        \/ last.req.lines = <<>>
        \/ \E i \in 1..Len(last.req.lines) : last.req.lines[i].qty <= 0)
      => /\ last.status = 400
         /\ Tables = last.pre

\* C7 witness: between known locations, a first line that is valid and in
\* stock and a second line with qty 0
C7_Witness ==
    /\ last.op = "create_stock_transfer"
    /\ last.req.from_location_id = 1 /\ last.req.to_location_id = 2
    /\ Len(last.req.lines) = 2
    /\ ~TransferLineInvalid(last.pre, last.req, 1)
    /\ last.req.lines[2].qty <= 0
    /\ IdOfSku(last.pre, last.req.lines[2].product_sku) # 0
    /\ last.status = 400

\* C8: a receipt refused for an unknown SKU leaves the ledger and the Lot
\* table as they were.
C8_RefusedReceiptLeavesNothing ==
    (last.op = "post_receipt" /\ last.status = 400)
      => /\ stock_move = last.pre.stock_move
         /\ lot = last.pre.lot

\* the first line of a receipt payload that names lot_code for product p
FirstLineNaming(T, payload, p, lot_code) ==
    CHOOSE i \in 1..Len(payload.lines) :
        /\ IdOfSku(T, payload.lines[i].product_sku) = p
        /\ payload.lines[i].lot_code = lot_code
        /\ \A j \in 1..(i - 1) :
             ~(/\ IdOfSku(T, payload.lines[j].product_sku) = p
               /\ payload.lines[j].lot_code = lot_code)

\* C9: there is at most one Lot per (product_id, lot_code); a receipt leaves
\* every existing Lot as it was, a Lot it creates has the expiry_date of the
\* first line that names it, and every row it adds for a line with a
\* lot_code carries the id of that one Lot.
C9_OneLotPerCode ==
    /\ \A i, j \in 1..Len(lot) :
         (lot[i].product_id = lot[j].product_id /\ lot[i].lot_code = lot[j].lot_code)
           => i = j
    /\ last.op = "post_receipt"
         => /\ SubSeq(lot, 1, Len(last.pre.lot)) = last.pre.lot
            /\ \A k \in (Len(last.pre.lot) + 1)..Len(lot) :
                 lot[k].expiry_date =
                    last.req.lines[FirstLineNaming(Tables, last.req, lot[k].product_id,
                                                   lot[k].lot_code)].expiry_date
            /\ last.status = 200
                 => \A i \in 1..Len(last.req.lines) :
                      LET m == stock_move[Len(last.pre.stock_move) + i]
                          line == last.req.lines[i]
                      IN IF line.lot_code = "" THEN m.lot_id = 0
                         ELSE /\ m.lot_id \in 1..Len(lot)
                              /\ lot[m.lot_id].product_id = m.product_id
                              /\ lot[m.lot_id].lot_code = line.lot_code

\* C9 witness: a committed receipt named a lot that existed with another
\* expiry_date, and the lot kept its own
C9_Witness ==
    /\ last.op = "post_receipt" /\ last.status = 200
    /\ \E i \in 1..Len(last.req.lines), k \in 1..Len(last.pre.lot) :
         /\ last.pre.lot[k].product_id = IdOfSku(Tables, last.req.lines[i].product_sku)
         /\ last.pre.lot[k].lot_code = last.req.lines[i].lot_code
         /\ last.pre.lot[k].expiry_date # last.req.lines[i].expiry_date
         /\ lot[k].expiry_date = last.pre.lot[k].expiry_date
         /\ stock_move[Len(last.pre.stock_move) + i].lot_id = k

\* the SKU a create_product payload asks for, stripped and upper-cased
AskedSku(payload) == upper(strip(payload.sku))

\* C10: no two products share a SKU, and creating a product whose stripped,
\* upper-cased SKU is the SKU of an existing product is answered 400
\* "SKU already exists." and adds no row.
C10_SkuUnique ==
    /\ \A i, j \in 1..Len(product) : product[i].sku = product[j].sku => i = j
    /\ (/\ last.op = "create_product"
        /\ strip(last.req.name) # <<>>
        /\ IdOfSku(last.pre, AskedSku(last.req)) # 0)
         => /\ last.status = 400
            /\ last.detail = "SKU already exists."
            /\ product = last.pre.product

\* C10 witness: a SKU given in another spelling than the stored one was
\* refused, in a catalogue that also holds a generated SKU
C10_Witness ==
    /\ last.op = "create_product" /\ last.status = 400
    /\ strip(last.req.name) # <<>>
    /\ IdOfSku(last.pre, AskedSku(last.req)) # 0
    /\ IdOfSku(last.pre, last.req.sku) = 0
    /\ \E i \in 1..Len(product) : Len(product[i].sku) = 5

\* C11: the ledger is append-only: no operation (receipt, sale, added lines,
\* transfer, product update or deactivation, location or settings update)
\* changes or deletes a committed StockMove row; the rows of each committed
\* state are those of the state before, unchanged, followed by new ones.
C11_LedgerAppendOnly ==
    [][/\ Len(stock_move') >= Len(stock_move)
       /\ SubSeq(stock_move', 1, Len(stock_move)) = stock_move]_vars

\* a transfer has added its two rows behind the rows of a receipt, and
\* products, locations and settings have been updated since the start
C11_Witness ==
    /\ last.op = "create_stock_transfer" /\ last.status = 200
    /\ last.pre.stock_move # <<>>
    /\ Len(stock_move) = Len(last.pre.stock_move) + 2 * Len(last.req.lines)
    /\ product[1].name = <<"b">> /\ ~product[1].is_active
    /\ location[2].name = <<"T">>
    /\ company_settings # <<>>

\* the low-stock entries the lines from i on are due: one per line that
\* leaves ALERT_THRESHOLD or less of what T has at the sale location
RECURSIVE LowStockDue(_, _, _)
LowStockDue(T, payload, i) ==
    IF i > Len(payload.lines) THEN <<>>
    ELSE LET line == payload.lines[i]
             pid == IdOfSku(T, line.sku)
             remaining == LedgerSum(T, pid, payload.location_id) - line.qty
         IN IF remaining <= ALERT_THRESHOLD
            THEN <<[sku |-> T.product[pid].sku, name |-> T.product[pid].name,
                    remaining |-> remaining]>> \o LowStockDue(T, payload, i + 1)
            ELSE LowStockDue(T, payload, i + 1)

\* C12: a sale that is committed returns the low-stock list: an entry
\* {sku, name, remaining} for a line exactly when available - qty is at
\* most 5, with remaining = available - qty, and no entry for a line that
\* leaves more than 5.
C12_LowStockList ==
    (last.op = "create_sale" /\ SaleAcceptable(last.pre, last.req))
      => /\ last.status = 200
         /\ last.resp.low_stock = LowStockDue(last.pre, last.req, 1)

\* C13: after any sequence of create_location and update_location no two
\* Location rows have the same name; a creation with, or a rename to, a
\* name another row has is refused with the duplicate-name error and
\* changes nothing.
C13_LocationNamesUnique ==
    /\ \A i, j \in 1..Len(location) : location[i].name = location[j].name => i = j
    /\ last.op = "create_location"
         => \A i \in 1..Len(last.pre.location) :
              last.pre.location[i].name = strip(last.req.name)
                => /\ last.status = 400
                   /\ last.detail = "Location already exists"
                   /\ location = last.pre.location
    /\ (last.op = "update_location" /\ hasattr(last.req.payload, "name"))
         => \A i \in 1..Len(last.pre.location) :
              /\ i # last.req.location_id
              /\ last.req.location_id \in 1..Len(last.pre.location)
              /\ last.pre.location[i].name = strip(last.req.payload.name)
              => /\ last.status = 400
                 /\ last.detail = "Location already exists"
                 /\ location = last.pre.location

\* the line_total of the lines of the sales in ids
RECURSIVE SalesTotalOf(_, _)
SalesTotalOf(T, ids) ==
    IF ids = {} THEN 0
    ELSE LET id == CHOOSE x \in ids : TRUE
         IN LineTotalOver(T, LinesOf(T, id)) + SalesTotalOf(T, ids \ {id})

\* the sales of T created on a day that agrees with ref in its first n
\* parts (1: the year, 2: year and month, 3: the day)
SalesOfPeriod(T, ref, n) ==
    {id \in 1..Len(T.sale) : SubSeq(T.sale[id].created_at, 1, n) = SubSeq(ref, 1, n)}

\* C14: with an end_date given, sales_today, sales_this_month and
\* sales_this_year of sales_summary are the sums of line_total over all
\* sales created on the day, in the month and in the year of end_date,
\* whatever start_date is (also the default window of 7 days) and whatever
\* the server's date is.
C14_SummaryKpis ==
    (last.op = "sales_summary" /\ last.req.end_date # None)
      => /\ last.resp.sales_today
              = SalesTotalOf(last.pre, SalesOfPeriod(last.pre, last.req.end_date, 3))
         /\ last.resp.sales_this_month
              = SalesTotalOf(last.pre, SalesOfPeriod(last.pre, last.req.end_date, 2))
         /\ last.resp.sales_this_year
              = SalesTotalOf(last.pre, SalesOfPeriod(last.pre, last.req.end_date, 1))

\* the sales a history request asks for: those created from the earlier to
\* the later of its two days (GET /sales/history), or from start_date to
\* end_date (GET /reports/sales/history)
SalesInRange(T, op, req) ==
    IF op = "sales_history"
    THEN LET a == fromisoformat(req.start_date)
             b == fromisoformat(req.end_date)
         IN IF a = None \/ b = None THEN {}
            ELSE {id \in 1..Len(T.sale) :
                    \/ DateLE(a, date(T.sale[id].created_at))
                         /\ DateLE(date(T.sale[id].created_at), b)
                    \/ DateLE(b, date(T.sale[id].created_at))
                         /\ DateLE(date(T.sale[id].created_at), a)}
    ELSE {id \in 1..Len(T.sale) : /\ DateLE(req.start_date, date(T.sale[id].created_at))
                                  /\ DateLE(date(T.sale[id].created_at), req.end_date)}

\* C15: both sales histories and the single-sale lookup report for a sale
\* the sum of the line_total of its SaleLine rows (0 for a sale without
\* lines), whatever its stored total_amount is; a history reports sales in
\* range only, and every sale in range when the limit allows.
C15_ReportedTotals ==
    /\ last.op \in {"sales_history", "reports_sales_history"}
         => LET range == SalesInRange(last.pre, last.op, last.req)
                shown == {last.resp[i].id : i \in 1..Len(last.resp)}
            IN /\ \A i \in 1..Len(last.resp) :
                    last.resp[i].total
                      = LineTotalOver(last.pre, LinesOf(last.pre, last.resp[i].id))
               /\ shown \subseteq range
               /\ Cardinality(shown) = Len(last.resp)
               /\ Cardinality(range) <= last.req.limit => shown = range
    /\ (last.op = "get_sale" /\ last.req.sale_id \in 1..Len(last.pre.sale))
         => /\ last.status = 200
            /\ last.resp.sale.total
                 = LineTotalOver(last.pre, LinesOf(last.pre, last.req.sale_id))

\* a history shows two sales: one whose lines sum to something else than
\* its stored total_amount, and one without lines
C15_Witness ==
    /\ last.op = "sales_history"
    /\ \E i, j \in 1..Len(last.resp) :
         /\ LinesOf(last.pre, last.resp[i].id) # {}
         /\ last.resp[i].total # last.pre.sale[last.resp[i].id].total_amount
         /\ LinesOf(last.pre, last.resp[j].id) = {}
         /\ last.resp[j].total = 0
         /\ last.pre.sale[last.resp[j].id].total_amount # 0

\* the transfer request has known, different locations and lines that all
\* name a product with a qty above 0
TransferWellFormed(T, payload) ==
    /\ payload.from_location_id # payload.to_location_id
    /\ payload.from_location_id \in 1..Len(T.location)
    /\ payload.to_location_id \in 1..Len(T.location)
    /\ payload.lines # <<>>
    /\ \A i \in 1..Len(payload.lines) :
         payload.lines[i].qty > 0 /\ IdOfSku(T, payload.lines[i].product_sku) # 0

\* line i on its own asks more than the source has when the transfer starts
TransferLineShort(T, payload, i) ==
    payload.lines[i].qty
      > LedgerSum(T, IdOfSku(T, payload.lines[i].product_sku), payload.from_location_id)

\* C16: each line of a transfer is compared with what the source has when
\* the transfer starts, not with what the earlier lines leave: the transfer
\* is refused for insufficient stock exactly when some single line asks
\* more than that, so two lines of one SKU that each fit are both booked.
C16_TransferChecksStartStock ==
    (last.op = "create_stock_transfer" /\ TransferWellFormed(last.pre, last.req))
      => IF \E i \in 1..Len(last.req.lines) : TransferLineShort(last.pre, last.req, i)
         THEN /\ last.status = 400
              /\ last.detail = "Not enough stock"
              /\ stock_move = last.pre.stock_move
         ELSE /\ last.status = 200
              /\ Len(stock_move) = Len(last.pre.stock_move) + 2 * Len(last.req.lines)

\* two lines of one SKU, each within the source's stock and together above
\* it, are booked
C16_Witness ==
    /\ last.op = "create_stock_transfer" /\ last.status = 200
    /\ Len(last.req.lines) = 2
    /\ last.req.lines[1].product_sku = last.req.lines[2].product_sku
    /\ ~TransferLineShort(last.pre, last.req, 1)
    /\ ~TransferLineShort(last.pre, last.req, 2)
    /\ last.req.lines[1].qty + last.req.lines[2].qty
         > LedgerSum(last.pre, IdOfSku(last.pre, last.req.lines[1].product_sku),
                     last.req.from_location_id)
    /\ Len(stock_move) = Len(last.pre.stock_move) + 4

\* the SALE_ADJUST rows the ledger holds beyond the receipt of the start
AdjustRows == {i \in 1..Len(stock_move) : stock_move[i].move_type = "SALE_ADJUST"}

\* C17: nothing locks or checks again between the stock guard and the
\* commit: a request whose lines all passed the guard commits its negative
\* rows whatever was committed meanwhile, so two overlapping requests for
\* one product and location that read the same availability both commit
\* and leave the availability below zero.
C17_NoRecheckBeforeCommit ==
    /\ \A p \in Procs :
         (/\ proc[p].pc = "done"
          /\ proc[p].seen # <<>>
          /\ Len(proc[p].seen) = Len(proc[p].req.payload.lines))
           => proc[p].status = 200
    /\ Cardinality(AdjustRows)
         = Cardinality({pl \in Procs \X (1..MaxLines) :
                          /\ proc[pl[1]].pc = "done" /\ proc[pl[1]].status = 200
                          /\ pl[2] <= Len(proc[pl[1]].seen)})

\* two requests have read the same availability, both have passed the
\* guard and committed, and the availability is below zero
C17_Witness ==
    /\ \E p, q \in Procs :
         /\ p # q
         /\ proc[p].pc = "done" /\ proc[p].status = 200
         /\ proc[q].pc = "done" /\ proc[q].status = 200
         /\ proc[p].seen = <<3>> /\ proc[q].seen = <<3>>
    /\ LedgerSum(Tables, 1, 1) < 0

\* C18: there is at most one CompanySettings row in every reachable state,
\* also when two first requests (GET or POST /settings/company) overlap
\* between the look-up of the row and its insertion.
C18_OneSettingsRow == Len(company_settings) <= 1

\* C19: with one request at a time and receipts of qty > 0 only, no
\* product is below zero at any location in any committed state, whatever
\* receipts, sales, added lines and transfers came before, also when a
\* request names one SKU on more than one line.
C19_StockNeverNegative ==
    \A p \in ProductIds, l \in LocationIds : LedgerSum(Tables, p, l) >= 0

\* the location the added lines are sold at
AddLinesLocation(T, req) ==
    IF req.payload.location_id # 0 THEN req.payload.location_id
    ELSE T.sale[req.sale_id].location_id

\* the add-lines request names no sale of T, has no lines, or has a line
\* with an unknown SKU, a qty of 0 or less, or more than T has of it
AddLinesInvalid(T, req) ==
    \/ req.sale_id \notin 1..Len(T.sale)
    \/ req.payload.lines = <<>>
    \/ \E i \in 1..Len(req.payload.lines) :
         LET ln == req.payload.lines[i]
         IN \/ IdOfSku(T, ln.sku) = 0
            \/ ln.qty <= 0
            \/ ln.qty > LedgerSum(T, IdOfSku(T, ln.sku), AddLinesLocation(T, req))

\* C20: add_lines_to_sale is all-or-nothing: when the sale is unknown, the
\* lines are empty or some line has an unknown SKU, a qty <= 0 or a qty
\* above the availability at the resolved location, the request is refused
\* and no SaleLine and no StockMove of it is kept, also not of the lines
\* before the failing one, and total_amount is as before.
C20_AddLinesAllOrNothing ==
    (last.op = "add_lines_to_sale" /\ AddLinesInvalid(last.pre, last.req))
      => /\ last.status \in {400, 404}
         /\ sale_line = last.pre.sale_line
         /\ stock_move = last.pre.stock_move
         /\ sale = last.pre.sale

\* a request whose first line is in stock and whose second line is not
\* has been refused
C20_Witness ==
    /\ last.op = "add_lines_to_sale"
    /\ last.req.sale_id \in 1..Len(last.pre.sale)
    /\ Len(last.req.payload.lines) = 2
    /\ ~AddLinesInvalid(last.pre, [last.req EXCEPT !.payload.lines = SubSeq(@, 1, 1)])
    /\ AddLinesInvalid(last.pre, [last.req EXCEPT !.payload.lines = SubSeq(@, 2, 2)])
    /\ last.status = 400
    /\ last.pre.stock_move # <<>>

====
